---- MODULE Spec2Model ----
(***************************************************************************)
(* La Luna Resort API (src/main.py, src/schemas.py): the room and booking  *)
(* collections of the document store, and the handlers create_room,        *)
(* list_rooms, check_availability, create_booking and list_bookings.  A    *)
(* request is one action for its arrival and one for each access of its    *)
(* handler to the shared store (for create_booking: find_one on room,      *)
(* find_one on booking, insert), so that requests of different handler     *)
(* threads interleave between them.                                        *)
(*                                                                         *)
(* Strings are sequences of one-character strings: ids are compared as the *)
(* store compares them (character by character), ISO dates as the store    *)
(* orders strings (by code point).                                         *)
(***************************************************************************)
EXTENDS Integers, Sequences, FiniteSets, TLC

VARIABLES room, booking, pc, req, result

vars == <<room, booking, pc, req, result>>

(***************************************************************************)
(* Bounds of the model.                                                    *)
(***************************************************************************)
\* Stored bookings plus requests that have passed the overlap check.
MaxBookings == 2

\* The handler threads that serve requests concurrently.
Procs == {1, 2}

(***************************************************************************)
(* Strings.                                                                *)
(***************************************************************************)
Digits == <<"0", "1", "2", "3", "4", "5", "6", "7", "8", "9">>

\* Code point of the characters an ISO date is written with.
Ord(c) ==
    CASE c = "-" -> 45
      [] c = "0" -> 48 [] c = "1" -> 49 [] c = "2" -> 50 [] c = "3" -> 51
      [] c = "4" -> 52 [] c = "5" -> 53 [] c = "6" -> 54 [] c = "7" -> 55
      [] c = "8" -> 56 [] c = "9" -> 57

Min(a, b) == IF a < b THEN a ELSE b

\* s <= t: the comparison $lte / $gte would make.
StrLe(s, t) ==
    \/ s = t
    \/ \E i \in 1..Min(Len(s), Len(t)) :
          /\ \A j \in 1..(i - 1) : s[j] = t[j]
          /\ Ord(s[i]) < Ord(t[i])
    \/ /\ Len(s) < Len(t)
       /\ \A j \in 1..Len(s) : s[j] = t[j]

\* s < t as the store orders two strings: by the first differing character,
\* a proper prefix first.
StrLt(s, t) ==
    \/ \E i \in 1..Min(Len(s), Len(t)) :
          /\ \A j \in 1..(i - 1) : s[j] = t[j]
          /\ Ord(s[i]) < Ord(t[i])
    \/ /\ Len(s) < Len(t)
       /\ \A j \in 1..Len(s) : s[j] = t[j]

(***************************************************************************)
(* Dates: datetime.date values <<year, month, day>>.                       *)
(***************************************************************************)
D1 == <<2024, 6, 9>>
D2 == <<2024, 6, 10>>
D3 == <<2024, 11, 2>>

Dates == {D1, D2, D3}

\* date.__lt__ / __le__: chronological order.
DateLt(a, b) ==
    \/ a[1] < b[1]
    \/ a[1] = b[1] /\ a[2] < b[2]
    \/ a[1] = b[1] /\ a[2] = b[2] /\ a[3] < b[3]

\* A range test that lets a zero-night range through.
DateLeStrict(a, b) == DateLt(a, b)

DateLe(a, b) == a = b \/ DateLt(a, b)

Digit(k) == Digits[k + 1]

\* n written with w decimal digits, zero padded (format "%04d", "%02d").
RECURSIVE Pad(_, _)
Pad(n, w) == IF w = 0 THEN <<>> ELSE Pad(n \div 10, w - 1) \o <<Digit(n % 10)>>

\* date.isoformat(): YYYY-MM-DD.
isoformat(d) == Pad(d[1], 4) \o <<"-">> \o Pad(d[2], 2) \o <<"-">> \o Pad(d[3], 2)

Val(c) == Ord(c) - Ord("0")

\* date.fromisoformat(s), as the response model parses a stored date.
fromisoformat(s) ==
    <<1000 * Val(s[1]) + 100 * Val(s[2]) + 10 * Val(s[3]) + Val(s[4]),
      10 * Val(s[6]) + Val(s[7]),
      10 * Val(s[9]) + Val(s[10])>>

(***************************************************************************)
(* Object ids.                                                             *)
(***************************************************************************)
ObjectIdLen == 24

HexLower == {"0", "1", "2", "3", "4", "5", "6", "7", "8", "9",
             "a", "b", "c", "d", "e", "f"}
HexUpper == {"A", "B", "C", "D", "E", "F"}
HexChars == HexLower \cup HexUpper

Lower(c) ==
    CASE c = "A" -> "a" [] c = "B" -> "b" [] c = "C" -> "c"
      [] c = "D" -> "d" [] c = "E" -> "e" [] c = "F" -> "f"
      [] OTHER -> c

Rep(c, n) == [i \in 1..n |-> c]

\* HTTPException(status_code, detail).
HTTPException(status_code, detail) == [status_code |-> status_code, detail |-> detail]

IsError(r) == "status_code" \in DOMAIN r

InvalidId == HTTPException(400, "Invalid ID format")
NotFound == HTTPException(404, "Room not found")
Conflict == HTTPException(409, "Room not available for selected dates")
InvalidRange == HTTPException(400, "Check-out must be after check-in")

\* ObjectId(id_str): a string of 24 hexadecimal digits of either case; the
\* value is the 12 bytes, written here as str(ObjectId) writes them, in
\* lower case.  Anything else raises, which _to_id turns into HTTP 400.
\* ObjectId without its length test.
to_id_any_length(id_str) ==
    IF \A i \in 1..Len(id_str) : id_str[i] \in HexChars
    THEN [oid |-> [i \in 1..Len(id_str) |-> Lower(id_str[i])]]
    ELSE InvalidId

to_id(id_str) ==
    IF /\ Len(id_str) = ObjectIdLen
       /\ \A i \in 1..Len(id_str) : id_str[i] \in HexChars
    THEN [oid |-> [i \in 1..Len(id_str) |-> Lower(id_str[i])]]
    ELSE InvalidId

(***************************************************************************)
(* Inputs.                                                                 *)
(***************************************************************************)
IdA == Rep("a", ObjectIdLen)
IdAUpper == Rep("A", ObjectIdLen)
IdB == Rep("b", ObjectIdLen)
IdMissing == Rep("f", ObjectIdLen)
IdShort == <<"a", "b", "c">>
IdNotHex == Rep("g", ObjectIdLen)

\* The ids the store issues to rooms, in the order of their creation.
RoomOids == <<IdA, IdB>>

RoomIdInputs == {IdA, IdAUpper, IdB, IdMissing, IdShort, IdNotHex}

\* <<check_in, check_out>>: three proper stays (two of them adjacent, the
\* third overlapping both), a zero-night stay and an inverted one.
Stays == {<<D1, D2>>, <<D2, D3>>, <<D1, D3>>, <<D2, D2>>, <<D3, D1>>}

Capacities == {1, 2}

GuestEmail == "guest@example.com"
OtherEmail == "other@example.com"

\* schemas.Booking as far as the handlers read it; status is the default.
BookingInputs ==
    {[room_id |-> s, email |-> GuestEmail, check_in |-> iv[1], check_out |-> iv[2],
      guests |-> 2, status |-> "confirmed"] : s \in RoomIdInputs, iv \in Stays}

\* Request bodies for one room with and without a status: the three the
\* schema's description names and one it does not.
StatusBodies ==
    {[room_id |-> IdA, email |-> GuestEmail, check_in |-> iv[1], check_out |-> iv[2],
      guests |-> 2] : iv \in {<<D1, D2>>, <<D2, D3>>, <<D1, D3>>}}
    \cup
    {[room_id |-> IdA, email |-> GuestEmail, check_in |-> iv[1], check_out |-> iv[2],
      guests |-> 2, status |-> st] :
        iv \in {<<D1, D2>>, <<D2, D3>>, <<D1, D3>>},
        st \in {"pending", "cancelled", "checked_out"}}

\* schemas.Booking(**body): a status the body does not give is "confirmed".
Booking(body) ==
    [room_id |-> body.room_id, email |-> body.email,
     check_in |-> body.check_in, check_out |-> body.check_out,
     guests |-> body.guests,
     status |-> IF "status" \in DOMAIN body THEN body.status ELSE "confirmed"]

\* The requests that race in the concurrent specification: two rooms, a
\* missing one and two malformed ids; two overlapping stays.
RaceInputs ==
    {b \in BookingInputs :
        /\ b.room_id \in {IdA, IdB, IdMissing, IdShort, IdNotHex}
        /\ <<b.check_in, b.check_out>> \in {<<D1, D3>>, <<D2, D3>>}}

\* AvailabilityRequest.
AvailabilityInputs ==
    {[check_in |-> iv[1], check_out |-> iv[2], guests |-> g] :
        iv \in Stays, g \in {1, 2}}

\* GET /rooms has no parameters.
ListRoomsInputs == {[path |-> "/rooms"]}

\* GET /bookings: no email parameter, an empty one, the email of the stored
\* bookings and another one.
ListBookingsInputs ==
    {[path |-> "/bookings"]}
        \cup {[path |-> "/bookings", email |-> e] : e \in {"", GuestEmail, OtherEmail}}

NoRequest == [none |-> TRUE]
NoResult == [none |-> TRUE]

(***************************************************************************)
(* The document store.                                                     *)
(***************************************************************************)
\* create_document("booking", booking): the stored document, dates written
\* as ISO strings.
BookingDocument(b) ==
    [room_id |-> b.room_id, email |-> b.email, check_in |-> isoformat(b.check_in),
     check_out |-> isoformat(b.check_out), guests |-> b.guests,
     status |-> b.status]

\* get_documents("booking", filter_dict): the stored bookings from the i-th
\* on that match the filter (all of them when it is None), each with its _id.
RECURSIVE get_documents(_, _, _)
get_documents(bookings, filter_dict, i) ==
    IF i > Len(bookings) THEN <<>>
    ELSE (IF "email" \in DOMAIN filter_dict => bookings[i].email = filter_dict.email
          THEN <<[_id |-> i, doc |-> bookings[i]]>>
          ELSE <<>>) \o get_documents(bookings, filter_dict, i + 1)

\* The date filter without its status clause.
overlapping_filter_any_status(doc, check_in, check_out) ==
    /\ StrLt(doc.check_in, isoformat(check_out))
    /\ StrLt(isoformat(check_in), doc.check_out)

\* {"check_in": {"$lt": check_out}, "check_out": {"$gt": check_in},
\*  "status": {"$ne": "cancelled"}} on a stored booking.
overlapping_filter(doc, check_in, check_out) ==
    /\ StrLt(doc.check_in, isoformat(check_out))
    /\ StrLt(isoformat(check_in), doc.check_out)
    /\ doc.status # "cancelled"

\* The filter of create_booking without its room_id clause.
overlap_filter_any_room(doc, b) == overlapping_filter(doc, b.check_in, b.check_out)

\* The filter of create_booking: the one above and equality on room_id.
overlap_filter(doc, b) ==
    /\ doc.room_id = b.room_id
    /\ overlapping_filter(doc, b.check_in, b.check_out)

\* db["booking"].find_one(filter): the first stored booking that matches,
\* 0 for None.
find_one_overlap(bookings, b) ==
    IF \E i \in 1..Len(bookings) : overlap_filter(bookings[i], b)
    THEN CHOOSE i \in 1..Len(bookings) :
            /\ overlap_filter(bookings[i], b)
            /\ \A j \in 1..(i - 1) : ~overlap_filter(bookings[j], b)
    ELSE 0

\* db["room"].find_one({"_id": room_oid}) finds a room.
find_one_room(rooms, oid) == \E r \in rooms : r.id = oid

(***************************************************************************)
(* Initial state: an empty store, every handler thread idle.               *)
(***************************************************************************)
Init ==
    /\ room = {}
    /\ booking = <<>>
    /\ pc = [p \in Procs |-> "idle"]
    /\ req = [p \in Procs |-> NoRequest]
    /\ result = [p \in Procs |-> NoResult]

(***************************************************************************)
(* Handlers.  pc[p] is where handler thread p stands: "idle", or before    *)
(* the access to the store that the name says.                             *)
(***************************************************************************)
\* A request arrives: its body has been parsed into the handler's argument.
Receive(p, at, body) ==
    /\ pc[p] = "idle"
    /\ pc' = [pc EXCEPT ![p] = at]
    /\ req' = [req EXCEPT ![p] = body]
    /\ result' = [result EXCEPT ![p] = NoResult]

\* The handler returns r or raises it.
Respond(p, r) ==
    /\ pc' = [pc EXCEPT ![p] = "idle"]
    /\ req' = [req EXCEPT ![p] = NoRequest]
    /\ result' = [result EXCEPT ![p] = r]

\* POST /rooms: the store issues the next id.
create_room(capacity) ==
    /\ Cardinality(room) < Len(RoomOids)
    /\ room' = room \cup {[id |-> RoomOids[Cardinality(room) + 1], capacity |-> capacity]}
    /\ UNCHANGED <<booking, pc, req, result>>

\* POST /bookings arrives.
post_bookings(p, b) ==
    /\ Receive(p, "find_room", b)
    /\ UNCHANGED <<room, booking>>

\* create_booking up to the room lookup.
create_booking_find_room(p) ==
    /\ pc[p] = "find_room"
    /\ LET room_oid == to_id(req[p].room_id) IN
         IF IsError(room_oid)
         THEN Respond(p, room_oid)
         ELSE IF ~find_one_room(room, room_oid.oid)
         THEN Respond(p, NotFound)
         ELSE /\ pc' = [pc EXCEPT ![p] = "find_overlap"]
              /\ UNCHANGED <<req, result>>
    /\ UNCHANGED <<room, booking>>

\* An overlap lookup that refuses more guests than the room holds.
create_booking_find_overlap_capacity(p) ==
    /\ pc[p] = "find_overlap"
    /\ IF \E r \in room : r.id = to_id(req[p].room_id).oid /\ r.capacity < req[p].guests
       THEN Respond(p, HTTPException(400, "Too many guests for this room"))
       ELSE IF find_one_overlap(booking, req[p]) # 0
       THEN Respond(p, Conflict)
       ELSE /\ Len(booking) + Cardinality({q \in Procs : pc[q] = "insert"}) < MaxBookings
            /\ pc' = [pc EXCEPT ![p] = "insert"]
            /\ UNCHANGED <<req, result>>
    /\ UNCHANGED <<room, booking>>

\* An overlap lookup that stores the request before it refuses it.
create_booking_find_overlap_storing(p) ==
    /\ pc[p] = "find_overlap"
    /\ IF find_one_overlap(booking, req[p]) # 0
       THEN /\ Respond(p, Conflict)
            /\ booking' = Append(booking, BookingDocument(req[p]))
       ELSE /\ Len(booking) + Cardinality({q \in Procs : pc[q] = "insert"}) < MaxBookings
            /\ pc' = [pc EXCEPT ![p] = "insert"]
            /\ UNCHANGED <<req, result, booking>>
    /\ UNCHANGED room

\* The overlap lookup.  A request goes on to its insert only while the
\* model has room for one more booking.
create_booking_find_overlap(p) ==
    /\ pc[p] = "find_overlap"
    /\ IF find_one_overlap(booking, req[p]) # 0
       THEN Respond(p, Conflict)
       ELSE /\ Len(booking) + Cardinality({q \in Procs : pc[q] = "insert"}) < MaxBookings
            /\ pc' = [pc EXCEPT ![p] = "insert"]
            /\ UNCHANGED <<req, result>>
    /\ UNCHANGED <<room, booking>>

\* An insert that writes over a stored booking of the same room_id.
create_booking_insert_upsert(p) ==
    /\ pc[p] = "insert"
    /\ IF \E i \in 1..Len(booking) : booking[i].room_id = req[p].room_id
       THEN LET i == CHOOSE i \in 1..Len(booking) : booking[i].room_id = req[p].room_id
            IN  /\ booking' = [booking EXCEPT ![i] = BookingDocument(req[p])]
                /\ Respond(p, [id |-> i])
       ELSE /\ booking' = Append(booking, BookingDocument(req[p]))
            /\ Respond(p, [id |-> Len(booking) + 1])
    /\ UNCHANGED room

\* create_document("booking", booking) and the response.
create_booking_insert(p) ==
    /\ pc[p] = "insert"
    /\ booking' = Append(booking, BookingDocument(req[p]))
    /\ Respond(p, [id |-> Len(booking) + 1])
    /\ UNCHANGED room

\* The external cancellation path: status -> cancelled.
cancel_booking(i) ==
    /\ i \in 1..Len(booking)
    /\ booking[i].status # "cancelled"
    /\ booking' = [booking EXCEPT ![i].status = "cancelled"]
    /\ UNCHANGED <<room, pc, req, result>>

\* POST /availability arrives.
post_availability(p, payload) ==
    /\ Receive(p, "availability", payload)
    /\ UNCHANGED <<room, booking>>

\* An availability that leaves out every room with a live booking, whatever
\* its dates.
available_rooms_never_booked(rooms, bookings, payload) ==
    LET candidate_rooms == {r \in rooms : r.capacity >= payload.guests}
        booked_ids == {bookings[i].room_id :
                          i \in {j \in 1..Len(bookings) : bookings[j].status # "cancelled"}}
    IN  {r \in candidate_rooms : r.id \notin booked_ids}

\* The rooms check_availability returns for a valid range.
available_rooms(rooms, bookings, payload) ==
    LET candidate_rooms == {r \in rooms : r.capacity >= payload.guests}
        overlapping == {i \in 1..Len(bookings) :
                          overlapping_filter(bookings[i], payload.check_in, payload.check_out)}
        booked_ids == {bookings[i].room_id : i \in overlapping}
    IN  {r \in candidate_rooms : r.id \notin booked_ids}

check_availability(p) ==
    /\ pc[p] = "availability"
    /\ IF DateLe(req[p].check_out, req[p].check_in)
       THEN Respond(p, InvalidRange)
       ELSE Respond(p, [rooms |-> available_rooms(room, booking, req[p])])
    /\ UNCHANGED <<room, booking>>

\* GET /rooms arrives.
get_rooms(p, q) ==
    /\ Receive(p, "list_rooms", q)
    /\ UNCHANGED <<room, booking>>

\* d["id"] = str(d.pop("_id")); RoomOut(**d).
RoomOut(d) == [id |-> d.id, capacity |-> d.capacity]

list_rooms(p) ==
    /\ pc[p] = "list_rooms"
    /\ Respond(p, [rooms |-> {RoomOut(d) : d \in room}])
    /\ UNCHANGED <<room, booking>>

\* GET /bookings arrives.
get_bookings(p, q) ==
    /\ Receive(p, "list_bookings", q)
    /\ UNCHANGED <<room, booking>>

\* d["id"] = str(d.pop("_id")); BookingOut(**d).
BookingOut(d) ==
    [id |-> d._id, room_id |-> d.doc.room_id, email |-> d.doc.email,
     check_in |-> fromisoformat(d.doc.check_in),
     check_out |-> fromisoformat(d.doc.check_out),
     guests |-> d.doc.guests, status |-> d.doc.status]

\* A list_bookings that takes the documents it returns out of the store.
list_bookings_consuming(p) ==
    /\ pc[p] = "list_bookings"
    /\ LET email == IF "email" \in DOMAIN req[p] THEN req[p].email ELSE ""
           filter_q == IF email # "" THEN [email |-> email] ELSE [none |-> TRUE]
           docs == get_documents(booking, filter_q, 1)
       IN  /\ Respond(p, [bookings |-> [k \in 1..Len(docs) |-> BookingOut(docs[k])]])
           /\ booking' = IF Len(docs) = 0 THEN booking ELSE <<>>
    /\ UNCHANGED room

list_bookings(p) ==
    /\ pc[p] = "list_bookings"
    /\ LET email == IF "email" \in DOMAIN req[p] THEN req[p].email ELSE ""
           filter_q == IF email # "" THEN [email |-> email] ELSE [none |-> TRUE]
           docs == get_documents(booking, filter_q, 1)
       IN  Respond(p, [bookings |-> [k \in 1..Len(docs) |-> BookingOut(docs[k])]])
    /\ UNCHANGED <<room, booking>>

(***************************************************************************)
(* Specifications.                                                         *)
(***************************************************************************)
\* Concurrent requests: the steps of the handler threads interleave.
Next ==
    \/ \E c \in Capacities : create_room(c)
    \/ \E p \in Procs, b \in RaceInputs : post_bookings(p, b)
    \/ \E p \in Procs : create_booking_find_room(p)
    \/ \E p \in Procs : create_booking_find_overlap(p)
    \/ \E p \in Procs : create_booking_insert(p)
    \/ \E i \in 1..MaxBookings : cancel_booking(i)

Spec == Init /\ [][Next]_vars

\* Each handler thread that has a step to take is eventually run.
Fairness ==
    \A p \in Procs :
        /\ WF_vars(create_booking_find_room(p))
        /\ WF_vars(create_booking_find_overlap(p))
        /\ WF_vars(create_booking_insert(p))

\* The concurrent requests under fair scheduling: one stay in either of two
\* rooms or in a missing one.
FairInputs ==
    {b \in RaceInputs :
        /\ b.room_id \in {IdA, IdB, IdMissing}
        /\ <<b.check_in, b.check_out>> = <<D1, D3>>}

NextFair ==
    \/ \E c \in Capacities : create_room(c)
    \/ \E p \in Procs, b \in FairInputs : post_bookings(p, b)
    \/ \E p \in Procs : create_booking_find_room(p)
    \/ \E p \in Procs : create_booking_find_overlap(p)
    \/ \E p \in Procs : create_booking_insert(p)
    \/ \E i \in 1..MaxBookings : cancel_booking(i)

SpecFair == Init /\ [][NextFair]_vars /\ Fairness

\* One request at a time: each runs to completion before the next starts.
Quiet == \A q \in Procs : pc[q] = "idle"

NextSeq ==
    \/ \E c \in Capacities : Quiet /\ create_room(c)
    \/ \E b \in BookingInputs : post_bookings(1, b)
    \/ create_booking_find_room(1)
    \/ create_booking_find_overlap(1)
    \/ create_booking_insert(1)
    \/ \E i \in 1..MaxBookings : Quiet /\ cancel_booking(i)
    \/ \E a \in AvailabilityInputs : post_availability(1, a)
    \/ check_availability(1)
    \/ \E q \in ListRoomsInputs : get_rooms(1, q)
    \/ list_rooms(1)
    \/ \E q \in ListBookingsInputs : get_bookings(1, q)
    \/ list_bookings(1)

SpecSeq == Init /\ [][NextSeq]_vars

\* One request at a time, the bodies parsed by the schema.
NextStatus ==
    \/ \E c \in Capacities : Quiet /\ create_room(c)
    \/ \E body \in StatusBodies : post_bookings(1, Booking(body))
    \/ create_booking_find_room(1)
    \/ create_booking_find_overlap(1)
    \/ create_booking_insert(1)
    \/ \E i \in 1..MaxBookings : Quiet /\ cancel_booking(i)

SpecStatus == Init /\ [][NextStatus]_vars

(***************************************************************************)
(* What the properties are stated with.                                    *)
(***************************************************************************)
\* The date a stored ISO string stands for.
DateOf(s) == CHOOSE d \in Dates : isoformat(d) = s

\* [a1, a2) and [b1, b2) overlap.
Overlaps(a1, a2, b1, b2) == DateLt(a1, b2) /\ DateLt(b1, a2)

\* The room a stored booking is of: the room its room_id resolves to.
RoomOf(doc) == to_id(doc.room_id).oid

Live(doc) == doc.status # "cancelled"

DocsOverlap(x, y) ==
    Overlaps(DateOf(x.check_in), DateOf(x.check_out),
             DateOf(y.check_in), DateOf(y.check_out))

\* The non-cancelled stored bookings of room oid that overlap [check_in, check_out).
Blocking(bookings, oid, check_in, check_out) ==
    {i \in 1..Len(bookings) :
        /\ Live(bookings[i])
        /\ RoomOf(bookings[i]) = oid
        /\ Overlaps(DateOf(bookings[i].check_in), DateOf(bookings[i].check_out),
                    check_in, check_out)}

IsSuccess(r) == "id" \in DOMAIN r

\* This step is p's room lookup.
RoomLookedUp(p) == pc[p] = "find_room" /\ pc'[p] # "find_room"

\* This step is p's answer to an availability query.
AvailabilityAnswered(p) == pc[p] = "availability" /\ pc'[p] # "availability"

\* This step is p's overlap lookup.
OverlapChecked(p) == pc[p] = "find_overlap" /\ pc'[p] # "find_overlap"

\* This step is p's insert.
Inserted(p) == pc[p] = "insert" /\ pc'[p] # "insert"

\* p's insert stores the request as a new booking and answers with its id.
InsertSucceeds(p) ==
    Inserted(p) =>
        /\ Len(booking') = Len(booking) + 1
        /\ IsSuccess(result'[p])
        /\ result'[p].id = Len(booking')
        /\ booking'[Len(booking')].room_id = req[p].room_id
        /\ DateOf(booking'[Len(booking')].check_in) = req[p].check_in
        /\ DateOf(booking'[Len(booking')].check_out) = req[p].check_out

(***************************************************************************)
(* C1.  Under any interleaving of concurrent create_booking requests, no   *)
(* two non-cancelled bookings of the same room have overlapping intervals. *)
(* The handler does its overlap lookup and its insert as two separate      *)
(* accesses with nothing held in between, so two requests can both pass    *)
(* the lookup before either inserts.                                       *)
(***************************************************************************)
C1_NoDoubleBooking ==
    \A i, j \in 1..Len(booking) :
        (/\ i # j
         /\ Live(booking[i]) /\ Live(booking[j])
         /\ RoomOf(booking[i]) = RoomOf(booking[j]))
        => ~DocsOverlap(booking[i], booking[j])

(***************************************************************************)
(* C2.  Of two concurrent create_booking requests for the same room and    *)
(* the same interval exactly one succeeds: never do two handler threads    *)
(* both hold a success response for two stored, non-cancelled bookings of  *)
(* one room_id and one interval.  (One after the other this cannot happen: *)
(* the second finds the first unless the first was cancelled.)             *)
(***************************************************************************)
C2_ExactlyOneSucceeds ==
    \A p, q \in Procs :
        (p # q /\ IsSuccess(result[p]) /\ IsSuccess(result[q]))
        => LET x == booking[result[p].id]
               y == booking[result[q].id]
           IN  ~(/\ x.room_id = y.room_id
                 /\ x.check_in = y.check_in
                 /\ x.check_out = y.check_out
                 /\ DateLt(DateOf(x.check_in), DateOf(x.check_out))
                 /\ Live(x) /\ Live(y))

(***************************************************************************)
(* C3.  With requests executed one after another, and cancellations in     *)
(* between, no two non-cancelled stored bookings of the same room overlap. *)
(***************************************************************************)
C3_NoDoubleBookingSequential ==
    \A i \in 1..Len(booking) : \A j \in (i + 1)..Len(booking) :
        (Live(booking[i]) /\ Live(booking[j]) /\ DocsOverlap(booking[i], booking[j]))
        => RoomOf(booking[i]) # RoomOf(booking[j])

(***************************************************************************)
(* C4.  A create_booking request for an existing room, run without         *)
(* interference, fails with Conflict if and only if a non-cancelled stored *)
(* booking of that room overlaps the requested interval, and otherwise     *)
(* succeeds.                                                               *)
(***************************************************************************)
C4_ConflictIffBlocked ==
    [][/\ OverlapChecked(1) =>
            /\ result'[1] = Conflict <=>
                 Blocking(booking, to_id(req[1].room_id).oid,
                          req[1].check_in, req[1].check_out) # {}
            /\ result'[1] # Conflict => pc'[1] = "insert"
       /\ InsertSucceeds(1)]_vars

(***************************************************************************)
(* C5.  Merely adjacent stays never conflict: when every non-cancelled     *)
(* booking of the room ends on or before the requested check_in or starts  *)
(* on or after the requested check_out, the request passes the overlap     *)
(* lookup and is stored.                                                   *)
(***************************************************************************)
AdjacentOrApart(bookings, oid, check_in, check_out) ==
    \A i \in 1..Len(bookings) :
        (Live(bookings[i]) /\ RoomOf(bookings[i]) = oid)
        => \/ DateLe(DateOf(bookings[i].check_out), check_in)
           \/ DateLe(check_out, DateOf(bookings[i].check_in))

C5_AdjacentStaysSucceed ==
    [][/\ (/\ OverlapChecked(1)
           /\ AdjacentOrApart(booking, to_id(req[1].room_id).oid,
                              req[1].check_in, req[1].check_out))
          => pc'[1] = "insert"
       /\ InsertSucceeds(1)]_vars

\* The last request was stored although it starts on the day an earlier
\* live booking of the same room ends.
C5_Witness ==
    /\ IsSuccess(result[1])
    /\ \E i \in 1..Len(booking) :
          /\ i < result[1].id
          /\ Live(booking[i]) /\ Live(booking[result[1].id])
          /\ RoomOf(booking[i]) = RoomOf(booking[result[1].id])
          /\ booking[i].check_out = booking[result[1].id].check_in
          /\ DateLt(DateOf(booking[i].check_in), DateOf(booking[i].check_out))

(***************************************************************************)
(* C6.  A cancelled booking never blocks: a request whose interval         *)
(* overlaps cancelled bookings of its room, and no live one, passes the    *)
(* overlap lookup and is stored; and check_availability returns a room of  *)
(* sufficient capacity whose overlapping bookings are all cancelled.       *)
(***************************************************************************)
CancelledOverlap(bookings, oid, check_in, check_out) ==
    \E i \in 1..Len(bookings) :
        /\ ~Live(bookings[i])
        /\ RoomOf(bookings[i]) = oid
        /\ Overlaps(DateOf(bookings[i].check_in), DateOf(bookings[i].check_out),
                    check_in, check_out)

C6_CancelledNeverBlocks ==
    [][/\ (/\ OverlapChecked(1)
           /\ CancelledOverlap(booking, to_id(req[1].room_id).oid,
                               req[1].check_in, req[1].check_out)
           /\ Blocking(booking, to_id(req[1].room_id).oid,
                       req[1].check_in, req[1].check_out) = {})
          => pc'[1] = "insert"
       /\ Inserted(1) => IsSuccess(result'[1]) /\ Len(booking') = Len(booking) + 1
       /\ (AvailabilityAnswered(1) /\ DateLt(req[1].check_in, req[1].check_out))
          => \A r \in room :
               (/\ r.capacity >= req[1].guests
                /\ CancelledOverlap(booking, r.id, req[1].check_in, req[1].check_out)
                /\ Blocking(booking, r.id, req[1].check_in, req[1].check_out) = {})
               => r \in result'[1].rooms]_vars

\* The last request was stored over a cancelled booking of the same room
\* that overlaps it.
C6_Witness ==
    /\ IsSuccess(result[1])
    /\ \E i \in 1..Len(booking) :
          /\ i < result[1].id
          /\ ~Live(booking[i]) /\ Live(booking[result[1].id])
          /\ RoomOf(booking[i]) = RoomOf(booking[result[1].id])
          /\ DocsOverlap(booking[i], booking[result[1].id])

(***************************************************************************)
(* C7.  For a valid range check_availability returns exactly the rooms     *)
(* whose capacity is at least guests and that no non-cancelled stored      *)
(* booking of that room overlaps.                                          *)
(***************************************************************************)
C7_AvailableExactly ==
    [][(AvailabilityAnswered(1) /\ DateLt(req[1].check_in, req[1].check_out))
       => result'[1] =
            [rooms |-> {r \in room :
                          /\ r.capacity >= req[1].guests
                          /\ Blocking(booking, r.id, req[1].check_in, req[1].check_out) = {}}]]_vars

(***************************************************************************)
(* C8.  A create_booking request with check_out <= check_in stores         *)
(* nothing: every stored booking has check_out after check_in.             *)
(***************************************************************************)
C8_StoredStaysProper ==
    \A i \in 1..Len(booking) :
        DateLt(DateOf(booking[i].check_in), DateOf(booking[i].check_out))

(***************************************************************************)
(* C9.  check_availability with check_out <= check_in answers InvalidRange *)
(* whatever the store holds and returns no rooms; with check_out after     *)
(* check_in it never answers InvalidRange; either way rooms and bookings   *)
(* stay as they were.                                                      *)
(***************************************************************************)
C9_AvailabilityRange ==
    [][AvailabilityAnswered(1)
       => /\ room' = room /\ booking' = booking
          /\ IF DateLt(req[1].check_in, req[1].check_out)
             THEN "rooms" \in DOMAIN result'[1] /\ result'[1] # InvalidRange
             ELSE result'[1] = InvalidRange]_vars

\* An availability query was refused over a store that holds a room and a
\* booking.
C9_Witness ==
    /\ result[1] = InvalidRange
    /\ room # {}
    /\ Len(booking) > 0

(***************************************************************************)
(* C10.  create_booking answers InvalidId for a room_id that is not 24     *)
(* hexadecimal digits and NotFound for one that is but names no room, in   *)
(* both cases at once (the overlap lookup is never reached) and storing    *)
(* nothing; so, under any interleaving, every stored booking and every     *)
(* request past the room lookup references a room that exists.             *)
(***************************************************************************)
HexDigitChars ==
    {"0", "1", "2", "3", "4", "5", "6", "7", "8", "9",
     "a", "b", "c", "d", "e", "f", "A", "B", "C", "D", "E", "F"}

WellFormed(id_str) ==
    /\ Len(id_str) = 24
    /\ \A i \in 1..Len(id_str) : id_str[i] \in HexDigitChars

RoomsExist ==
    /\ \A i \in 1..Len(booking) :
          WellFormed(booking[i].room_id) /\ \E r \in room : r.id = RoomOf(booking[i])
    /\ \A p \in Procs :
          pc[p] \in {"find_overlap", "insert"} =>
             WellFormed(req[p].room_id) /\ \E r \in room : r.id = to_id(req[p].room_id).oid

ReadAnswered(p) ==
    /\ pc[p] \in {"list_rooms", "list_bookings", "availability"}
    /\ pc'[p] = "idle"

\* The stored booking i as a response shows it.
Shown(bookings, i) ==
    [id |-> i, room_id |-> bookings[i].room_id, email |-> bookings[i].email,
     check_in |-> DateOf(bookings[i].check_in),
     check_out |-> DateOf(bookings[i].check_out),
     guests |-> bookings[i].guests, status |-> bookings[i].status]

\* The bookings a list_bookings query q asks for.
Wanted(bookings, q) ==
    {i \in 1..Len(bookings) :
        ("email" \in DOMAIN q /\ q.email # "") => bookings[i].email = q.email}

\* r answers the read request q, which stands at "at", over these rooms and
\* bookings.
AnswersRead(r, at, rooms, bookings, q) ==
    CASE at = "list_rooms" -> r = [rooms |-> rooms]
      [] at = "list_bookings" ->
            /\ DOMAIN r = {"bookings"}
            /\ Len(r.bookings) = Cardinality(Wanted(bookings, q))
            /\ \A i \in Wanted(bookings, q) :
                  \E k \in 1..Len(r.bookings) : r.bookings[k] = Shown(bookings, i)
            /\ \A k \in 1..(Len(r.bookings) - 1) : r.bookings[k].id < r.bookings[k + 1].id
      [] at = "availability" ->
            IF DateLe(q.check_out, q.check_in)
            THEN r = InvalidRange
            ELSE r = [rooms |->
                        {x \in rooms :
                            /\ x.capacity >= q.guests
                            /\ \A i \in 1..Len(bookings) :
                                  (/\ bookings[i].room_id = x.id
                                   /\ Live(bookings[i]))
                                  => ~Overlaps(DateOf(bookings[i].check_in),
                                               DateOf(bookings[i].check_out),
                                               q.check_in, q.check_out)}]

C11_ReadsChangeNothing ==
    [][ReadAnswered(1) =>
          /\ room' = room
          /\ booking' = booking
          /\ AnswersRead(result'[1], pc[1], room, booking, req[1])]_vars

\* A list of two stored bookings has been returned, and both are still
\* stored as they were shown.
C11_Witness ==
    /\ "bookings" \in DOMAIN result[1]
    /\ Len(result[1].bookings) = 2
    /\ Len(booking) = 2
    /\ \A k \in 1..2 : result[1].bookings[k] = Shown(booking, k)

(***************************************************************************)
(* C12.  For any room at most one create_booking request stands between    *)
(* its overlap lookup and its insert: no two handler threads have both     *)
(* passed the overlap lookup for the same room and not yet inserted.       *)
(* Nothing in create_booking is held across the two accesses.              *)
(***************************************************************************)
\* p has passed its overlap lookup and has not inserted yet.
InWindow(p) == pc[p] = "insert"

C12_OneInWindowPerRoom ==
    \A p, q \in Procs :
        (p # q /\ InWindow(p) /\ InWindow(q))
        => to_id(req[p].room_id).oid # to_id(req[q].room_id).oid

(***************************************************************************)
(* C13.  Concurrent create_booking requests do not block or influence each *)
(* other: a request in flight can take its next step whatever step the     *)
(* other thread is at (short of the model's bound on stored bookings);     *)
(* whether its overlap lookup answers Conflict is the same as over the     *)
(* bookings of its own room alone; and, with every handler thread          *)
(* scheduled fairly, every request in flight comes to its response (or     *)
(* the model's store is full).                                             *)
(***************************************************************************)
\* The model holds as many bookings as it lets in.
StoreFull == Len(booking) + Cardinality({q \in Procs : pc[q] = "insert"}) >= MaxBookings

CanStep(p) ==
    /\ pc[p] = "find_room" => ENABLED create_booking_find_room(p)
    /\ pc[p] = "find_overlap" => StoreFull \/ ENABLED create_booking_find_overlap(p)
    /\ pc[p] = "insert" => ENABLED create_booking_insert(p)

\* The stored bookings of room oid, in their order.
RECURSIVE BookingsOf(_, _)
BookingsOf(bookings, oid) ==
    IF bookings = <<>> THEN <<>>
    ELSE (IF RoomOf(Head(bookings)) = oid THEN <<Head(bookings)>> ELSE <<>>)
            \o BookingsOf(Tail(bookings), oid)

OwnRoomDecides(p) ==
    OverlapChecked(p) =>
        (result'[p] = Conflict
            <=> find_one_overlap(BookingsOf(booking, to_id(req[p].room_id).oid), req[p]) # 0)

C13_NoInterference ==
    /\ [](\A p \in Procs : CanStep(p))
    /\ [][\A p \in Procs : OwnRoomDecides(p)]_vars
    /\ \A p \in Procs :
          (pc[p] # "idle") ~> (pc[p] = "idle" \/ Len(booking) = MaxBookings)

\* A request has passed its overlap lookup although the other room has a
\* live booking for the same stay, while a request for that other room is
\* at its own lookup.
C13_Witness ==
    /\ pc[1] = "insert" /\ pc[2] = "find_overlap"
    /\ to_id(req[1].room_id).oid # to_id(req[2].room_id).oid
    /\ Len(booking) = 1
    /\ Live(booking[1])
    /\ RoomOf(booking[1]) = to_id(req[2].room_id).oid
    /\ booking[1].check_in = isoformat(req[1].check_in)

(***************************************************************************)
(* C14.  A create_booking request that fails is over with its failure and  *)
(* leaves the stored rooms and bookings exactly as they were: the step     *)
(* that answers InvalidId, NotFound or Conflict ends the request and       *)
(* stores nothing, and Conflict is answered only when a non-cancelled      *)
(* booking of the requested room that overlaps the requested interval is   *)
(* stored at the moment of the overlap lookup.                             *)
(***************************************************************************)
\* This step is p's create_booking request failing.
Failed(p) ==
    /\ pc[p] \in {"find_room", "find_overlap", "insert"}
    /\ IsError(result'[p])

C14_FailureStoresNothing ==
    [][\A p \in Procs :
          Failed(p) =>
             /\ result'[p] \in {InvalidId, NotFound, Conflict}
             /\ room' = room
             /\ booking' = booking
             /\ pc'[p] = "idle" /\ req'[p] = NoRequest
             /\ result'[p] = Conflict =>
                   Blocking(booking, to_id(req[p].room_id).oid,
                            req[p].check_in, req[p].check_out) # {}]_vars

\* One request has been refused with Conflict and another with NotFound
\* while one booking, still live, is stored.
C14_Witness ==
    /\ result[1] = Conflict
    /\ result[2] = NotFound
    /\ Len(booking) = 1
    /\ Live(booking[1])

(***************************************************************************)
(* C15.  A successful create_booking adds exactly one booking, under an id *)
(* no stored booking has, and changes nothing else: the rooms stay as they *)
(* are and every booking stored before is still there, unmodified.  Over   *)
(* any steps of the handlers and of the cancellation path no room and no   *)
(* booking id ever goes away.                                              *)
(***************************************************************************)
AddsOneBooking(p) ==
    Inserted(p) =>
        /\ IsSuccess(result'[p])
        /\ result'[p].id \notin 1..Len(booking)
        /\ result'[p].id \in 1..Len(booking')
        /\ Len(booking') = Len(booking) + 1
        /\ \A i \in 1..Len(booking) : booking'[i] = booking[i]
        /\ booking'[result'[p].id].room_id = req[p].room_id
        /\ DateOf(booking'[result'[p].id].check_in) = req[p].check_in
        /\ DateOf(booking'[result'[p].id].check_out) = req[p].check_out
        /\ room' = room

C15_InsertAddsOne ==
    [][/\ \A p \in Procs : AddsOneBooking(p)
       /\ Len(booking') >= Len(booking)
       /\ room \subseteq room']_vars

\* Both threads hold the ids of two different stored bookings, the first of
\* which has been cancelled since.
C15_Witness ==
    /\ IsSuccess(result[1]) /\ IsSuccess(result[2])
    /\ result[1].id # result[2].id
    /\ Len(booking) = 2
    /\ ~Live(booking[1])

(***************************************************************************)
(* C16.  In every reachable state each stored booking's status is one of   *)
(* pending, confirmed and cancelled, and a booking created by a request    *)
(* that gives no status is stored as confirmed.  Booking.status is a plain *)
(* str: whatever the request gives is stored.                              *)
(***************************************************************************)
KnownStatuses == {"pending", "confirmed", "cancelled"}

C16_StatusKnown ==
    /\ [](\A i \in 1..Len(booking) : booking[i].status \in KnownStatuses)
    /\ [][\A body \in StatusBodies :
            (/\ "status" \notin DOMAIN body
             /\ Inserted(1)
             /\ req[1] = Booking(body))
            => booking'[Len(booking')].status = "confirmed"]_vars

(***************************************************************************)
(* C17.  create_booking does not compare the guest count with the room's   *)
(* capacity: a request for more guests than its room holds, with no live   *)
(* booking of the room overlapping it, passes the overlap lookup and is    *)
(* stored with that guest count, although check_availability never         *)
(* returns a room for more guests than it holds.                           *)
(***************************************************************************)
\* The room the request of p is for holds fewer guests than it asks for.
OverCapacity(p) ==
    \E r \in room : r.id = to_id(req[p].room_id).oid /\ r.capacity < req[p].guests

C17_CapacityNotChecked ==
    [][/\ (/\ OverlapChecked(1)
           /\ OverCapacity(1)
           /\ Blocking(booking, to_id(req[1].room_id).oid,
                       req[1].check_in, req[1].check_out) = {})
          => pc'[1] = "insert"
       /\ (Inserted(1) /\ OverCapacity(1))
          => /\ IsSuccess(result'[1])
             /\ Len(booking') = Len(booking) + 1
             /\ booking'[Len(booking')].room_id = req[1].room_id
             /\ booking'[Len(booking')].guests = req[1].guests
       /\ (AvailabilityAnswered(1) /\ DateLt(req[1].check_in, req[1].check_out))
          => \A r \in room : r.capacity < req[1].guests => r \notin result'[1].rooms]_vars

\* The last request was stored for more guests than its room holds.
C17_Witness ==
    /\ IsSuccess(result[1])
    /\ Live(booking[result[1].id])
    /\ \E r \in room :
          /\ r.id = RoomOf(booking[result[1].id])
          /\ r.capacity < booking[result[1].id].guests

(***************************************************************************)
(* C18.  A booking belongs to the room its room_id resolves to, however    *)
(* the id is spelled: a request whose room_id resolves to a room that has  *)
(* a live stored booking overlapping the requested interval, under any     *)
(* spelling of the id, is answered Conflict, and check_availability leaves *)
(* that room out for an overlapping interval.  The filters compare the     *)
(* room_id strings instead.                                                *)
(***************************************************************************)
C18_RoomByIdentity ==
    [][/\ (/\ OverlapChecked(1)
           /\ Blocking(booking, to_id(req[1].room_id).oid,
                       req[1].check_in, req[1].check_out) # {})
          => result'[1] = Conflict
       /\ (AvailabilityAnswered(1) /\ DateLt(req[1].check_in, req[1].check_out))
          => \A r \in room :
                Blocking(booking, r.id, req[1].check_in, req[1].check_out) # {}
                => r \notin result'[1].rooms]_vars

(***************************************************************************)
(* C19.  Availability and booking agree over the same store.  For a valid  *)
(* interval and a request that names an existing room by its id as the     *)
(* service returns it: the request passes the overlap lookup, and is then  *)
(* stored, exactly when check_availability, asked for that interval and a  *)
(* guest count the room holds, returns the room; otherwise it is answered  *)
(* Conflict.  What check_availability answers is that set of rooms.        *)
(***************************************************************************)
\* check_availability over the present store returns room r for this
\* interval and guest count.
Returned(r, check_in, check_out, guests) ==
    r \in available_rooms(room, booking,
                          [check_in |-> check_in, check_out |-> check_out,
                           guests |-> guests])

C19_AvailabilityAgrees ==
    [][/\ (OverlapChecked(1) /\ DateLt(req[1].check_in, req[1].check_out))
          => \A r \in room : \A g \in 1..r.capacity :
                r.id = req[1].room_id
                => IF Returned(r, req[1].check_in, req[1].check_out, g)
                   THEN pc'[1] = "insert"
                   ELSE result'[1] = Conflict
       /\ Inserted(1) => IsSuccess(result'[1]) /\ Len(booking') = Len(booking) + 1
       /\ (AvailabilityAnswered(1) /\ DateLt(req[1].check_in, req[1].check_out))
          => \A r \in room :
                r \in result'[1].rooms
                <=> Returned(r, req[1].check_in, req[1].check_out, req[1].guests)]_vars

\* A request naming its room as the service returns it has been refused
\* with Conflict; the room holds the guests of the booking in its way,
\* which is still stored and live, and is not returned for its interval.
C19_Witness ==
    /\ result[1] = Conflict
    /\ \E i \in 1..Len(booking) : \E r \in room :
          /\ Live(booking[i])
          /\ booking[i].room_id = r.id
          /\ r.capacity >= booking[i].guests
          /\ ~Returned(r, DateOf(booking[i].check_in), DateOf(booking[i].check_out),
                       booking[i].guests)

====
